---- MODULE Spec2Model ----
(***************************************************************************)
(* Model of the scanning-and-storage engine of Ath:                        *)
(*   src/ath/storage.py  LocalStorage  (SQLite chunk store)                *)
(*   src/ath/scanner.py  ProjectScanner (directory walk + AST chunking)    *)
(*   src/ath/ai_chat.py  AthAI          (lexical retrieval, chat)          *)
(*                                                                         *)
(* Strings are modelled as sequences of lexical pieces ("atoms"): the path *)
(* "src/a.py" is <<"src", "/", "a", ".py">>.  No atom is a prefix of       *)
(* another, so comparing two strings atom by atom with Ord (the byte order *)
(* of the atoms) is the byte-wise comparison SQLite's BINARY collation     *)
(* performs, and equality of sequences is equality of strings.  Texts the  *)
(* program takes apart character by character (file contents, names,       *)
(* docstrings, questions) are sequences of single characters, and Chars     *)
(* spells a path out into its characters.                                  *)
(*                                                                         *)
(* The column created_at (DEFAULT CURRENT_TIMESTAMP) is left out of the    *)
(* rows: no operation of the program reads it.                             *)
(***************************************************************************)
EXTENDS Integers, Sequences, FiniteSets, TLC

\* ------------------------------------------------------------------ bounds
MaxChunks == 2      \* longest chunk list handed to store_code_chunks
MaxId     == 4      \* largest AUTOINCREMENT id handed out in a run
MaxChats  == 1      \* most rows save_chat inserts in a run

\* ----------------------------------------------------------------- strings
\* byte order of the atoms used in stored paths ('.' < '/' < 'a' < 'b' < 's')
Ord(a) ==
    CASE a = ".py" -> 1
      [] a = "/"   -> 2
      [] a = "a"   -> 3
      [] a = "b"   -> 4
      [] a = "c"   -> 5
      [] a = "src" -> 6
      [] OTHER     -> 7

\* s < t in SQLite's BINARY collation (memcmp, then the shorter string first)
RECURSIVE StrLess(_, _)
StrLess(s, t) ==
    IF t = <<>> THEN FALSE
    ELSE IF s = <<>> THEN TRUE
    ELSE IF Head(s) # Head(t) THEN Ord(Head(s)) < Ord(Head(t))
    ELSE StrLess(Tail(s), Tail(t))

\* --------------------------------------------------------------- CodeChunk
\* scanner.py CodeChunk: the seven fields store_code_chunks inserts
CodeChunk(fp, ty, nm, ct, ls, le, ds) ==
    [file_path |-> fp, chunk_type |-> ty, name |-> nm, content |-> ct,
     line_start |-> ls, line_end |-> le, docstring |-> ds]

P_a   == <<"a", ".py">>                       \* "a.py"
P_apa == <<"a", ".py", "/", "a", ".py">>        \* "a.py/a.py": a.py is its prefix and its suffix

\* the chunks callers hand to the store in this model
ChunkUniverse ==
    { CodeChunk(P_a,   "function", <<"f">>, <<"t2">>, 1, 1, <<"d">>),
      CodeChunk(P_a,   "class",    <<"C">>, <<"t3">>, 2, 2, <<>>),
      CodeChunk(P_apa, "module",   <<"a">>, <<"t1">>, 1, 1, <<>>) }

RECURSIVE SeqsUpTo(_, _)
SeqsUpTo(S, n) ==
    IF n = 0 THEN { <<>> }
    ELSE LET shorter == SeqsUpTo(S, n - 1)
         IN  shorter \cup { Append(s, x) : s \in { t \in shorter : Len(t) = n - 1 }, x \in S }

ChunkLists == SeqsUpTo(ChunkUniverse, MaxChunks)

\* the paths get_chunks_by_file is asked for
QueryPaths == { P_a, P_apa }

Questions == { "q" }
Responses == { "r" }
Cwd       == "/home/u/p"
Cwds      == { Cwd, "/tmp" }

\* =================================================================== state
VARIABLES
    schema,         \* data.db holds the tables code_chunks and chat_history
    code_chunks,    \* committed rows of code_chunks, in rowid order
    seq,            \* sqlite_sequence entry of code_chunks (AUTOINCREMENT)
    chat_history,   \* committed rows of chat_history, in rowid order
    config,         \* config.json: <<>> when absent, else <<initialized_at>>
    wpc,            \* store_code_chunks: "idle", "insert", "failed" (raised, connection
                    \* still open), "raised" (raised, transaction rolled back)
    wchunks,        \* its argument
    wi,             \* index of the next chunk of the for loop
    txn_rows,       \* code_chunks as seen inside the writer's open transaction
    txn_seq,        \* sqlite_sequence as seen inside that transaction
    before,         \* get_all_chunks() as it was when the running call began
    stored,         \* argument of the last call that committed, <<>> if none
    rpc,            \* reader: "idle", "open" (holds SHARED), "done"
    rquery,         \* the reader's statement: [op, path]
    result,         \* what the reader's call returned: [status, rows]
    ipc,            \* init_db: "idle", "config" (tables committed, config.json not yet written)
    assigned        \* largest id an INSERT of store_code_chunks has handed out so far
                    \* (history of the calls, committed or not; the program keeps no such value)

store_vars == <<schema, code_chunks, seq, chat_history, config, wpc, wchunks, wi,
                txn_rows, txn_seq, before, stored, rpc, rquery, result, ipc, assigned>>

VARIABLES
    fs,               \* the files under the scan root: a set of [dirs, name]
    has_end_lineno,   \* the interpreter's AST nodes carry end_lineno
    spc,              \* scan_project: "idle", "scan", "done"
    python_files,     \* the list _find_python_files returned
    fi,               \* index of the next file of the for loop
    sources,          \* what open()/read()/ast.parse gave for the files visited so far
    scan_chunks       \* chunks, the list scan_project builds and returns

scan_vars == <<fs, has_end_lineno, spc, python_files, fi, sources, scan_chunks>>

VARIABLES
    ai_provider,            \* AthAI.ai_provider
    conversation_history,   \* AthAI.conversation_history
    apc,                    \* the last call on AthAI: "idle" (none), "find_done",
                            \* "find_raised", "chat_done", "chat_raised"
    last_question,          \* its argument
    relevant,               \* what its _find_relevant_chunks returned
    last_response,          \* what chat returned
    calls,                  \* the requests chat sent to the answer service
    service                 \* how the answer service behaved during that chat

chat_vars == <<ai_provider, conversation_history, apc, last_question, relevant,
               last_response, calls, service>>

vars == <<store_vars, scan_vars, chat_vars>>

NoQuery  == [op |-> "none", path |-> <<>>]
NoResult == [status |-> "none", rows |-> <<>>]

\* ------------------------------------------------------------- row helpers
\* a row of code_chunks: the AUTOINCREMENT id and the seven inserted columns
Row(id, c) ==
    [id |-> id, file_path |-> c.file_path, chunk_type |-> c.chunk_type,
     name |-> c.name, content |-> c.content, line_start |-> c.line_start,
     line_end |-> c.line_end, docstring |-> c.docstring]

\* the seven caller-visible columns of a row
ChunkOf(r) ==
    CodeChunk(r.file_path, r.chunk_type, r.name, r.content,
              r.line_start, r.line_end, r.docstring)

ChunksOf(rows) == [k \in 1..Len(rows) |-> ChunkOf(rows[k])]

\* ORDER BY file_path, line_start
LessPathLine(r1, r2) ==
    \/ StrLess(r1.file_path, r2.file_path)
    \/ r1.file_path = r2.file_path /\ r1.line_start < r2.line_start

\* ORDER BY line_start
LessLine(r1, r2) == r1.line_start < r2.line_start

\* the comparison of an ORDER BY clause
RowLess(order, r1, r2) ==
    IF order = "file_path, line_start" THEN LessPathLine(r1, r2) ELSE LessLine(r1, r2)

\* SQLite's sorter is a merge sort that keeps rows with equal keys in the order
\* in which the table scan produced them (rowid order): a stable sort.
RECURSIVE InsertSorted(_, _, _)
InsertSorted(sorted, r, order) ==
    IF sorted = <<>> THEN <<r>>
    ELSE IF RowLess(order, r, Head(sorted)) THEN <<r>> \o sorted
    ELSE <<Head(sorted)>> \o InsertSorted(Tail(sorted), r, order)

RECURSIVE OrderBy(_, _)
OrderBy(rows, order) ==
    IF rows = <<>> THEN <<>>
    ELSE InsertSorted(OrderBy(SubSeq(rows, 1, Len(rows) - 1), order),
                      rows[Len(rows)], order)

\* GetAllChunks with the ORDER BY clause reduced to line_start
GetAllChunks_line_only(rows) == OrderBy(rows, "line_start")

\* SELECT * FROM code_chunks ORDER BY file_path, line_start
GetAllChunks(rows) == OrderBy(rows, "file_path, line_start")

\* s is a prefix of t
IsPrefix(s, t) == Len(s) <= Len(t) /\ SubSeq(t, 1, Len(s)) = s

\* WhereFilePath as WHERE file_path LIKE ? || '%'
WhereFilePath_like(r, p) == IsPrefix(p, r.file_path)

\* WHERE file_path = ?
WhereFilePath(r, p) == r.file_path = p

\* SELECT * FROM code_chunks WHERE file_path = ? ORDER BY line_start
GetChunksByFile(rows, p) ==
    OrderBy(SelectSeq(rows, LAMBDA r : WhereFilePath(r, p)), "line_start")

\* ============================================================ LocalStorage
StoreInit ==
    /\ schema = FALSE
    /\ code_chunks = <<>>
    /\ seq = 0
    /\ chat_history = <<>>
    /\ config = <<>>
    /\ wpc = "idle"
    /\ wchunks = <<>>
    /\ wi = 1
    /\ txn_rows = <<>>
    /\ txn_seq = 0
    /\ before = <<>>
    /\ stored = <<>>
    /\ rpc = "idle"
    /\ rquery = NoQuery
    /\ result = NoResult
    /\ ipc = "idle"
    /\ assigned = 0

\* CreateTableIfNotExists as DROP TABLE IF EXISTS followed by CREATE TABLE
CreateTable_dropping(exists, rows) == <<>>

\* CREATE TABLE IF NOT EXISTS: the rows of a table that exists are kept
CreateTableIfNotExists(exists, rows) == IF exists THEN rows ELSE <<>>

\* init_db, lines 16-42: connect, both CREATE TABLE IF NOT EXISTS statements,
\* commit, close.  A table that is created starts with an empty sqlite_sequence.
InitDbTables ==
    /\ ipc = "idle"
    /\ ipc' = "config"
    /\ schema' = TRUE
    /\ code_chunks' = CreateTableIfNotExists(schema, code_chunks)
    /\ chat_history' = CreateTableIfNotExists(schema, chat_history)
    /\ seq' = IF schema THEN seq ELSE 0
    /\ UNCHANGED <<config, wpc, wchunks, wi, txn_rows, txn_seq, before, stored,
                   rpc, rquery, result>>
    /\ UNCHANGED <<assigned, scan_vars, chat_vars>>

\* init_db, lines 44-54: config.json is rewritten with the working directory
InitDbConfig(cwd) ==
    /\ ipc = "config"
    /\ ipc' = "idle"
    /\ config' = <<cwd>>
    /\ UNCHANGED <<schema, code_chunks, seq, chat_history, wpc, wchunks, wi,
                   txn_rows, txn_seq, before, stored, rpc, rquery, result>>
    /\ UNCHANGED <<assigned, scan_vars, chat_vars>>

\* store_code_chunks on a database without tables: the DELETE raises
\* sqlite3.OperationalError before anything is written
StoreNoTable(chunks) ==
    /\ wpc \in {"idle", "raised"}
    /\ ~schema
    /\ wpc' = "raised"
    /\ before' = <<>>
    /\ UNCHANGED <<schema, code_chunks, seq, chat_history, config, wchunks, wi,
                   txn_rows, txn_seq, stored, rpc, rquery, result, ipc>>
    /\ UNCHANGED <<assigned, scan_vars, chat_vars>>

\* StoreBegin on a connection in autocommit mode (isolation_level=None): the
\* DELETE is committed as soon as it is executed
StoreBegin_autocommit(chunks) ==
    /\ wpc \in {"idle", "raised"}
    /\ schema
    /\ seq + Len(chunks) <= MaxId
    /\ rpc # "open"
    /\ wpc' = "insert"
    /\ wchunks' = chunks
    /\ wi' = 1
    /\ code_chunks' = <<>>
    /\ txn_rows' = <<>>
    /\ txn_seq' = seq
    /\ before' = ChunksOf(GetAllChunks(code_chunks))
    /\ UNCHANGED <<schema, seq, chat_history, config, stored, rpc, rquery, result, ipc>>
    /\ UNCHANGED <<assigned, scan_vars, chat_vars>>

\* StoreBegin without the DELETE statement
StoreBegin_no_delete(chunks) ==
    /\ wpc \in {"idle", "raised"}
    /\ schema
    /\ seq + Len(chunks) <= MaxId
    /\ wpc' = "insert"
    /\ wchunks' = chunks
    /\ wi' = 1
    /\ txn_rows' = code_chunks
    /\ txn_seq' = seq
    /\ before' = ChunksOf(GetAllChunks(code_chunks))
    /\ UNCHANGED <<schema, code_chunks, seq, chat_history, config, stored,
                   rpc, rquery, result, ipc>>
    /\ UNCHANGED <<assigned, scan_vars, chat_vars>>

\* StoreBegin with DELETE FROM sqlite_sequence beside the DELETE: the counter of
\* the AUTOINCREMENT column starts again at 0 inside the transaction
StoreBegin_reset_sequence(chunks) ==
    /\ wpc \in {"idle", "raised"}
    /\ schema
    /\ seq + Len(chunks) <= MaxId
    /\ wpc' = "insert"
    /\ wchunks' = chunks
    /\ wi' = 1
    /\ txn_rows' = <<>>
    /\ txn_seq' = 0
    /\ before' = ChunksOf(GetAllChunks(code_chunks))
    /\ UNCHANGED <<schema, code_chunks, seq, chat_history, config, stored,
                   rpc, rquery, result, ipc>>
    /\ UNCHANGED <<assigned, scan_vars, chat_vars>>

\* store_code_chunks, lines 58-61: connect and DELETE FROM code_chunks.  The
\* sqlite3 module opens a transaction before the DELETE, so the statement
\* empties the table only inside the writer's transaction.
StoreBegin(chunks) ==
    /\ wpc \in {"idle", "raised"}
    /\ schema
    /\ seq + Len(chunks) <= MaxId
    /\ wpc' = "insert"
    /\ wchunks' = chunks
    /\ wi' = 1
    /\ txn_rows' = <<>>
    /\ txn_seq' = seq
    /\ before' = ChunksOf(GetAllChunks(code_chunks))
    /\ UNCHANGED <<schema, code_chunks, seq, chat_history, config, stored,
                   rpc, rquery, result, ipc>>
    /\ UNCHANGED <<assigned, scan_vars, chat_vars>>

\* store_code_chunks, lines 64-72: one INSERT of the for loop, inside the
\* transaction; AUTOINCREMENT hands out sqlite_sequence + 1
StoreInsert ==
    /\ wpc = "insert"
    /\ wi <= Len(wchunks)
    /\ txn_rows' = Append(txn_rows, Row(txn_seq + 1, wchunks[wi]))
    /\ txn_seq' = txn_seq + 1
    /\ wi' = wi + 1
    /\ assigned' = IF txn_seq + 1 > assigned THEN txn_seq + 1 ELSE assigned
    /\ UNCHANGED <<schema, code_chunks, seq, chat_history, config, wpc, wchunks,
                   before, stored, rpc, rquery, result, ipc>>
    /\ UNCHANGED <<scan_vars, chat_vars>>

\* store_code_chunks, lines 74-75: commit and close.  The commit needs the
\* EXCLUSIVE lock, which SQLite grants only when no reader holds SHARED.
StoreCommit ==
    /\ wpc = "insert"
    /\ wi > Len(wchunks)
    /\ rpc # "open"
    /\ code_chunks' = txn_rows
    /\ seq' = txn_seq
    /\ stored' = wchunks
    /\ wpc' = "idle"
    /\ wchunks' = <<>>
    /\ wi' = 1
    /\ txn_rows' = <<>>
    /\ txn_seq' = 0
    /\ before' = <<>>
    /\ UNCHANGED <<schema, chat_history, config, rpc, rquery, result, ipc>>
    /\ UNCHANGED <<assigned, scan_vars, chat_vars>>

\* StoreFail with the commit in a finally clause: what was written so far is kept
StoreFail_commits ==
    /\ wpc = "insert"
    /\ rpc # "open"
    /\ wpc' = "failed"
    /\ wchunks' = <<>>
    /\ wi' = 1
    /\ code_chunks' = txn_rows
    /\ seq' = txn_seq
    /\ UNCHANGED <<schema, chat_history, config, txn_rows, txn_seq,
                   before, stored, rpc, rquery, result, ipc>>
    /\ UNCHANGED <<assigned, scan_vars, chat_vars>>

\* a statement of store_code_chunks (an INSERT or the commit) raises: the
\* exception leaves the function with the connection neither committed nor
\* closed; its locals are gone, its transaction is still open
StoreFail ==
    /\ wpc = "insert"
    /\ wpc' = "failed"
    /\ wchunks' = <<>>
    /\ wi' = 1
    /\ UNCHANGED <<schema, code_chunks, seq, chat_history, config,
                   txn_rows, txn_seq, before, stored, rpc, rquery, result, ipc>>
    /\ UNCHANGED <<assigned, scan_vars, chat_vars>>

\* the abandoned connection is finalised: SQLite rolls its transaction back
StoreRollback ==
    /\ wpc = "failed"
    /\ wpc' = "raised"
    /\ txn_rows' = <<>>
    /\ txn_seq' = 0
    /\ UNCHANGED <<schema, code_chunks, seq, chat_history, config, wchunks, wi,
                   before, stored, rpc, rquery, result, ipc>>
    /\ UNCHANGED <<assigned, scan_vars, chat_vars>>

\* get_all_chunks / get_chunks_by_file on a database without tables: the
\* SELECT raises sqlite3.OperationalError
ReadNoTable(q) ==
    /\ rpc = "idle"
    /\ ~schema
    /\ rpc' = "done"
    /\ rquery' = q
    /\ result' = [status |-> "error", rows |-> <<>>]
    /\ UNCHANGED <<schema, code_chunks, seq, chat_history, config, wpc, wchunks,
                   wi, txn_rows, txn_seq, before, stored, ipc>>
    /\ UNCHANGED <<assigned, scan_vars, chat_vars>>

\* connect and conn.execute(SELECT ...): the statement takes the SHARED lock
ReadOpen(q) ==
    /\ rpc = "idle"
    /\ schema
    /\ rpc' = "open"
    /\ rquery' = q
    /\ UNCHANGED <<schema, code_chunks, seq, chat_history, config, wpc, wchunks,
                   wi, txn_rows, txn_seq, before, stored, result, ipc>>
    /\ UNCHANGED <<assigned, scan_vars, chat_vars>>

\* the rows a SELECT of the reader sees: the committed table
Select(q, rows) ==
    IF q.op = "get_all_chunks" THEN GetAllChunks(rows)
    ELSE GetChunksByFile(rows, q.path)

\* cursor.fetchall() and conn.close(): the rows are read, the lock released
ReadFetchAll ==
    /\ rpc = "open"
    /\ rpc' = "done"
    /\ result' = [status |-> "ok", rows |-> Select(rquery, code_chunks)]
    /\ UNCHANGED <<schema, code_chunks, seq, chat_history, config, wpc, wchunks,
                   wi, txn_rows, txn_seq, before, stored, rquery, ipc>>
    /\ UNCHANGED <<assigned, scan_vars, chat_vars>>

\* the reader's call returns; its caller drops the list
ReadReturn ==
    /\ rpc = "done"
    /\ rpc' = "idle"
    /\ rquery' = NoQuery
    /\ result' = NoResult
    /\ UNCHANGED <<schema, code_chunks, seq, chat_history, config, wpc, wchunks,
                   wi, txn_rows, txn_seq, before, stored, ipc>>
    /\ UNCHANGED <<assigned, scan_vars, chat_vars>>

\* save_chat: INSERT INTO chat_history and commit.  The INSERT needs the
\* RESERVED lock (no writer transaction open), the commit the EXCLUSIVE one.
SaveChat(question, response) ==
    /\ schema
    /\ wpc \in {"idle", "raised"}
    /\ rpc # "open"
    /\ Len(chat_history) < MaxChats
    /\ chat_history' = Append(chat_history,
           [id |-> Len(chat_history) + 1, question |-> question, response |-> response])
    /\ UNCHANGED <<schema, code_chunks, seq, config, wpc, wchunks, wi, txn_rows,
                   txn_seq, before, stored, rpc, rquery, result, ipc>>
    /\ UNCHANGED <<assigned, scan_vars, chat_vars>>

\* ========================================================== ProjectScanner
MaxFiles == 2       \* most files under the scan root
MaxNodes == 2       \* most def / class / async def statements in one file

\* ProjectScanner.__init__: self.ignore_patterns
ignore_patterns ==
    { <<".git">>, <<"__pycache__">>, <<".aibuddy">>, <<"node_modules">>, <<".env">> }

D_src    == <<"src">>
D_git    == <<".git">>
D_mygit  == <<"my", ".git">>                \* "my.git"
D_nm     == <<"node_modules">>
D_nm_old == <<"node_modules", "_old">>      \* "node_modules_old"
N_a_py   == <<"a", ".py">>
N_a_pyc  == <<"a", ".py", "c">>             \* "a.pyc"

\* the places under the scan root where the model puts files: dirs is the
\* list of directory names from the root down, name the file name
Locations ==
    { [dirs |-> <<>>,             name |-> N_a_py],
      [dirs |-> <<D_mygit>>,      name |-> N_a_py],
      [dirs |-> <<D_nm_old>>,     name |-> N_a_pyc],
      [dirs |-> <<D_git>>,        name |-> N_a_py],
      [dirs |-> <<D_git, D_src>>, name |-> N_a_py],
      [dirs |-> <<D_src, D_nm>>,  name |-> N_a_py] }

FileTrees == { t \in SUBSET Locations : Cardinality(t) <= MaxFiles }

\* ---------------------------------------------------------- file contents
NodeNames == <<"n1", "n2", "n3", "n4">>
LineTexts == <<"L1", "L2", "L3", "L4">>

\* '\n'.join(lines)
RECURSIVE JoinLines(_)
JoinLines(lines) ==
    IF lines = <<>> THEN <<>>
    ELSE IF Len(lines) = 1 THEN lines[1]
    ELSE lines[1] \o <<"\n">> \o JoinLines(Tail(lines))

NodeKinds == { "FunctionDef", "ClassDef", "AsyncFunctionDef" }

\* node k of a file and its enclosing statements; 0 is the Module node
RECURSIVE AncestorsOrSelf(_, _)
AncestorsOrSelf(nodes, k) ==
    IF k = 0 THEN { 0 } ELSE { k } \cup AncestorsOrSelf(nodes, nodes[k].parent)

\* nodes lists the def / class / async def statements of a file in source
\* order, each with the statement that encloses it
ValidAst(nodes) ==
    \A k \in 1..Len(nodes) :
        /\ nodes[k].parent < k
        /\ k > 1 => nodes[k].parent \in AncestorsOrSelf(nodes, k - 1)

\* the def / class / async def statements a file can hold: statement k is
\* named NodeNames[k] and has no docstring
Asts ==
    UNION { { [k \in 1..n |-> [kind |-> sh[k].kind, parent |-> sh[k].parent,
                               name |-> <<NodeNames[k]>>, doc |-> <<>>]] :
                sh \in { nodes \in [1..n -> [kind : NodeKinds, parent : 0..(MaxNodes - 1)]] :
                           ValidAst(nodes) } } : n \in 0..MaxNodes }

\* the text of a file is a sequence of characters.  Statement k is the one
\* character LineTexts[k] on line k; filler counts the characters of a comment
\* that follows the last statement on its line; trailing_nl says whether the
\* text ends with a newline
FileText(nodes, filler, trailing_nl) ==
    JoinLines([k \in 1..Len(nodes) |-> <<LineTexts[k]>>])
        \o [i \in 1..filler |-> "#"]
        \o (IF trailing_nl THEN <<"\n">> ELSE <<>>)

\* what reading and parsing a file gives: its text and its statements, or a
\* failure of open()/read() ("unreadable") or of ast.parse ("syntax_error").
\* The files that end with a newline are the empty line and the files of one
\* statement; the two files of one 501-character line are longer than the 500
\* characters a module chunk keeps.
Sources ==
    { [status |-> "ok", nodes |-> nodes, content |-> FileText(nodes, 0, FALSE)] :
          nodes \in Asts }
        \cup { [status |-> "ok", nodes |-> nodes, content |-> FileText(nodes, 0, TRUE)] :
                   nodes \in { a \in Asts : Len(a) <= 1 } }
        \cup { [status |-> "ok", nodes |-> <<>>, content |-> FileText(<<>>, 501, nl)] :
                   nl \in BOOLEAN }
        \cup { [status |-> "syntax_error", nodes |-> <<>>, content |-> <<>>],
               [status |-> "unreadable",   nodes |-> <<>>, content |-> <<>>] }

\* each statement is the single line of its header: statement k is on line k,
\* and a statement ends on the line of the last statement nested in it
Lineno(nodes, k) == k

EndLineno(nodes, k) ==
    CHOOSE m \in k..Len(nodes) :
        /\ k \in AncestorsOrSelf(nodes, m)
        /\ \A j \in (m + 1)..Len(nodes) : k \notin AncestorsOrSelf(nodes, j)

\* the first position of the character sep in s, 0 when there is none
IndexOf(s, sep) ==
    IF \E i \in 1..Len(s) : s[i] = sep
    THEN CHOOSE i \in 1..Len(s) : s[i] = sep /\ \A j \in 1..(i - 1) : s[j] # sep
    ELSE 0

\* str.split(sep): the pieces between the occurrences of sep, empty ones kept
RECURSIVE SplitOn(_, _)
SplitOn(s, sep) ==
    LET i == IndexOf(s, sep)
    IN  IF i = 0 THEN <<s>>
        ELSE <<SubSeq(s, 1, i - 1)>> \o SplitOn(SubSeq(s, i + 1, Len(s)), sep)

\* content.split('\n'): one piece more than the text has newlines
SplitLines(content) == SplitOn(content, "\n")

\* lines[lo:hi], a Python slice
Slice(lines, lo, hi) ==
    LET top == IF hi < Len(lines) THEN hi ELSE Len(lines)
    IN  IF lo >= top THEN <<>> ELSE SubSeq(lines, lo + 1, top)

\* --------------------------------------------------------------- the walk
FilesIn(t, d) == { f \in t : f.dirs = d }

\* the names os.walk lists in dirs for directory d
SubDirs(t, d) ==
    { f.dirs[Len(d) + 1] : f \in { g \in t : Len(g.dirs) > Len(d) /\ IsPrefix(d, g.dirs) } }

\* file.endswith('.py')
EndsWithPy(name) == name # <<>> /\ name[Len(name)] = ".py"

\* KeptDirs with the test "no ignore pattern occurs in the directory name"
KeptDirs_substring(dirs) ==
    { d \in dirs : \A k \in 1..Len(d) : <<d[k]>> \notin ignore_patterns }

\* dirs[:] = [d for d in dirs if d not in self.ignore_patterns]
KeptDirs(dirs) == { d \in dirs : d \notin ignore_patterns }

\* _find_python_files: the files os.walk reaches from directory d down, with
\* the ignored directories pruned at every level
RECURSIVE FindPythonFiles(_, _)
FindPythonFiles(t, d) ==
    { f \in FilesIn(t, d) : EndsWithPy(f.name) }
        \cup UNION { FindPythonFiles(t, Append(d, sub)) : sub \in KeptDirs(SubDirs(t, d)) }

\* os.walk is top-down: the files of a directory come before the files of its
\* sub-directories, and each sub-directory is walked to the end before the
\* next.  The order of a directory listing is the file system's.
WalkOrder(files) ==
    /\ \A i, j \in 1..Len(files) :
          (IsPrefix(files[i].dirs, files[j].dirs) /\ files[i].dirs # files[j].dirs) => i < j
    /\ \A i, j, k \in 1..Len(files) :
          (i < j /\ j < k) =>
              \A n \in 1..Len(files[i].dirs) :
                  IsPrefix(SubSeq(files[i].dirs, 1, n), files[k].dirs)
                      => IsPrefix(SubSeq(files[i].dirs, 1, n), files[j].dirs)

\* the lists _find_python_files can return for the tree t
WalkOrders(t) ==
    LET found == FindPythonFiles(t, <<>>)
        n     == Cardinality(found)
    IN  { files \in [1..n -> found] :
            /\ \A i, j \in 1..n : i # j => files[i] # files[j]
            /\ WalkOrder(files) }

\* -------------------------------------------------------------- the parse
\* str(file_path.relative_to(self.project_path))
RECURSIVE JoinPath(_, _)
JoinPath(dirs, name) ==
    IF dirs = <<>> THEN name
    ELSE Head(dirs) \o <<"/">> \o JoinPath(Tail(dirs), name)

RelativePath(f) == JoinPath(f.dirs, f.name)

\* Path.stem: the name without its last suffix
Stem(name) ==
    IF Len(name) > 1 /\ name[Len(name)] \in { ".py", ".txt" }
    THEN SubSeq(name, 1, Len(name) - 1)
    ELSE name

\* the children of node n (0: the module) in source order
Children(nodes, n) ==
    SelectSeq([k \in 1..Len(nodes) |-> k], LAMBDA k : nodes[k].parent = n)

\* AstWalk as a loop over tree.body: the module and its direct children only
AstWalk_top_level(nodes, todo) == <<0>> \o Children(nodes, 0)

\* ast.walk: breadth-first from the todo deque, every node at any depth
RECURSIVE AstWalk(_, _)
AstWalk(nodes, todo) ==
    IF todo = <<>> THEN <<>>
    ELSE <<Head(todo)>> \o AstWalk(nodes, Tail(todo) \o Children(nodes, Head(todo)))

\* isinstance(node, (ast.FunctionDef, ast.ClassDef))
IsFunctionOrClass(nodes, k) == k # 0 /\ nodes[k].kind \in { "FunctionDef", "ClassDef" }

\* ExtractNodeChunk with line_start taken from the 0-based start_line
ExtractNodeChunk_zero_based(nodes, k, file_content, file_path) ==
    LET lines      == SplitLines(file_content)
        start_line == Lineno(nodes, k) - 1
        end_line   == IF has_end_lineno THEN EndLineno(nodes, k) ELSE start_line + 10
        chunk_type == IF nodes[k].kind = "FunctionDef" THEN "function" ELSE "class"
    IN  CodeChunk(file_path, chunk_type, nodes[k].name,
                  JoinLines(Slice(lines, start_line, end_line)),
                  start_line, end_line, nodes[k].doc)

\* _extract_node_chunk
ExtractNodeChunk(nodes, k, file_content, file_path) ==
    LET lines      == SplitLines(file_content)
        start_line == Lineno(nodes, k) - 1
        end_line   == IF has_end_lineno THEN EndLineno(nodes, k) ELSE start_line + 10
        chunk_type == IF nodes[k].kind = "FunctionDef" THEN "function" ELSE "class"
    IN  CodeChunk(file_path, chunk_type, nodes[k].name,
                  JoinLines(Slice(lines, start_line, end_line)),
                  Lineno(nodes, k), end_line, nodes[k].doc)

\* the loop over ast.walk(tree), lines 70-75
RECURSIVE NodeChunks(_, _, _, _)
NodeChunks(nodes, walk, file_content, file_path) ==
    IF walk = <<>> THEN <<>>
    ELSE (IF IsFunctionOrClass(nodes, Head(walk))
          THEN <<ExtractNodeChunk(nodes, Head(walk), file_content, file_path)>>
          ELSE <<>>) \o NodeChunks(nodes, Tail(walk), file_content, file_path)

\* ModuleChunk with a 0-based first line
ModuleChunk_zero_based(f, src) ==
    CodeChunk(RelativePath(f), "module", Stem(f.name),
              Slice(src.content, 0, 500),
              0, Len(SplitLines(src.content)) - 1, <<>>)

\* the module chunk, lines 58-68; the files of the model have no module
\* docstring
ModuleChunk(f, src) ==
    CodeChunk(RelativePath(f), "module", Stem(f.name),
              Slice(src.content, 0, 500),
              1, Len(SplitLines(src.content)), <<>>)

\* ExceptException that lets everything but a SyntaxError through
ExceptException_syntax_only(status) == status = "syntax_error"

\* line 77, except Exception: the failures of open and read (OSError,
\* UnicodeDecodeError) and of ast.parse (SyntaxError, ValueError) are all
\* subclasses of Exception
ExceptException(status) == status \in { "syntax_error", "unreadable" }

\* ParsePythonFile with the module chunk built and appended before ast.parse
\* is called: a file that was read but does not parse keeps its module chunk
ParsePythonFile_module_before_parse(f, src) ==
    IF src.status = "unreadable" THEN <<>>
    ELSE IF src.status = "syntax_error" THEN <<ModuleChunk(f, src)>>
    ELSE <<ModuleChunk(f, src)>>
             \o NodeChunks(src.nodes, AstWalk(src.nodes, <<0>>), src.content, RelativePath(f))

\* _parse_python_file: a failure of open, read or ast.parse is caught before
\* anything was appended, and the empty list is returned
ParsePythonFile(f, src) ==
    IF src.status # "ok" THEN <<>>
    ELSE <<ModuleChunk(f, src)>>
             \o NodeChunks(src.nodes, AstWalk(src.nodes, <<0>>), src.content, RelativePath(f))

\* scan_project as a function of the files found and of what each holds
RECURSIVE ScanProject(_, _)
ScanProject(files, srcs) ==
    IF files = <<>> THEN <<>>
    ELSE ParsePythonFile(Head(files), Head(srcs)) \o ScanProject(Tail(files), Tail(srcs))

ScanIdle ==
    /\ spc = "idle"
    /\ python_files = <<>>
    /\ fi = 1
    /\ sources = <<>>
    /\ scan_chunks = <<>>

\* scan_project, line 26: the call of _find_python_files
ScanStart ==
    /\ spc = "idle"
    /\ spc' = "scan"
    /\ python_files' \in WalkOrders(fs)
    /\ fi' = 1
    /\ sources' = <<>>
    /\ scan_chunks' = <<>>
    /\ UNCHANGED <<fs, has_end_lineno>>
    /\ UNCHANGED <<store_vars, chat_vars>>

\* scan_project, lines 26-28: one turn of the for loop; src is what the file
\* holds when it is opened.  An exception _parse_python_file lets through
\* ends the scan ("raised")
ScanFile(src) ==
    /\ spc = "scan"
    /\ fi <= Len(python_files)
    /\ sources' = Append(sources, src)
    /\ IF src.status # "ok" /\ ~ExceptException(src.status)
       THEN spc' = "raised" /\ UNCHANGED <<scan_chunks, fi>>
       ELSE /\ scan_chunks' = scan_chunks \o ParsePythonFile(python_files[fi], src)
            /\ fi' = fi + 1
            /\ spc' = spc
    /\ UNCHANGED <<fs, has_end_lineno, python_files>>
    /\ UNCHANGED <<store_vars, chat_vars>>

\* scan_project, line 30: return chunks
ScanReturn ==
    /\ spc = "scan"
    /\ fi > Len(python_files)
    /\ spc' = "done"
    /\ UNCHANGED <<fs, has_end_lineno, python_files, fi, sources, scan_chunks>>
    /\ UNCHANGED <<store_vars, chat_vars>>

\* =================================================================== AthAI
MaxRows  == 6       \* most rows of code_chunks when the retriever reads it
MaxTurns == 1       \* most chat calls on one AthAI object

\* the characters of the atoms of stored paths
AtomChars(a) ==
    CASE a = ".py"  -> <<".", "p", "y">>
      [] a = "src"  -> <<"s", "r", "c">>
      [] a = "my"   -> <<"m", "y">>
      [] a = ".git" -> <<".", "g", "i", "t">>
      [] OTHER      -> <<a>>

\* a stored path, character by character
RECURSIVE Chars(_)
Chars(s) == IF s = <<>> THEN <<>> ELSE AtomChars(Head(s)) \o Chars(Tail(s))

\* str.lower() on the characters of the model
LowerChar(c) ==
    CASE c = "A" -> "a"
      [] c = "D" -> "d"
      [] c = "S" -> "s"
      [] OTHER   -> c

Lower(s) == [i \in 1..Len(s) |-> LowerChar(s[i])]

\* str.isspace() of one character
IsSpace(c) == c \in { " ", "\t", "\n" }

\* str.split(): the maximal runs of characters that are not whitespace
RECURSIVE SplitWhitespace(_)
SplitWhitespace(s) ==
    IF s = <<>> THEN <<>>
    ELSE IF IsSpace(Head(s)) THEN SplitWhitespace(Tail(s))
    ELSE LET n == IF \E i \in 1..Len(s) : IsSpace(s[i])
                  THEN (CHOOSE i \in 1..Len(s) :
                            IsSpace(s[i]) /\ \A j \in 1..(i - 1) : ~IsSpace(s[j])) - 1
                  ELSE Len(s)
         IN  <<SubSeq(s, 1, n)>> \o SplitWhitespace(SubSeq(s, n + 1, Len(s)))

\* str.replace(from, to) for single characters
Replace(s, from, to) == [i \in 1..Len(s) |-> IF s[i] = from THEN to ELSE s[i]]

\* set(list)
ToSet(list) == { list[i] : i \in 1..Len(list) }

\* SQL NULL in the column docstring (None in the row's dict)
Null == <<"NULL">>

\* QuestionWords without the test on the length of a word
QuestionWords_any_length(q) == { Lower(word) : word \in ToSet(SplitWhitespace(q)) }

\* line 88: set(word.lower() for word in question.split() if len(word) > 2)
QuestionWords(q) ==
    { Lower(word) : word \in { w \in ToSet(SplitWhitespace(q)) : Len(w) > 2 } }

\* NameWords with the name split on underscore and whitespace at once
NameWords_joint(name) ==
    ToSet(SplitWhitespace(Replace(Lower(name), "_", " ")))

\* lines 94-95: set(name.split('_') + name.split()) of the lower-cased name
NameWords(name) ==
    LET lowered == Lower(name)
    IN  ToSet(SplitOn(lowered, "_") \o SplitWhitespace(lowered))

\* line 101: set(docstring.split()) of the lower-cased docstring
DocstringWords(docstring) == ToSet(SplitWhitespace(Lower(docstring)))

\* lines 105-106: the lower-cased path, '/' and '.' replaced by spaces, split
FileWords(file_path) ==
    ToSet(SplitWhitespace(Replace(Replace(Lower(Chars(file_path)), "/", " "), ".", " ")))

\* Score from the name alone
Score_name_only(question_words, chunk) ==
    Cardinality(question_words \cap NameWords(chunk.name)) * 5

\* lines 91-107: the score of one row for the question words
Score(question_words, chunk) ==
    Cardinality(question_words \cap NameWords(chunk.name)) * 5
        + (IF chunk.docstring # <<>>
           THEN Cardinality(question_words \cap DocstringWords(chunk.docstring)) * 3
           ELSE 0)
        + Cardinality(question_words \cap FileWords(chunk.file_path)) * 2

\* lines 90-110: the (chunk, score) pairs with a positive score, in the order
\* of all_chunks
RECURSIVE RelevantPairs(_, _)
RelevantPairs(all_chunks, question_words) ==
    IF all_chunks = <<>> THEN <<>>
    ELSE LET score == Score(question_words, Head(all_chunks))
         IN  (IF score > 0 THEN << [chunk |-> Head(all_chunks), score |-> score] >>
              ELSE <<>>) \o RelevantPairs(Tail(all_chunks), question_words)

\* SortByScore that puts an entry before the entries of equal score
RECURSIVE InsertByScore_before_equal(_, _)
InsertByScore_before_equal(sorted, p) ==
    IF sorted = <<>> THEN <<p>>
    ELSE IF p.score >= Head(sorted).score THEN <<p>> \o sorted
    ELSE <<Head(sorted)>> \o InsertByScore_before_equal(Tail(sorted), p)

\* list.sort(key=score, reverse=True) is stable: an entry goes behind the
\* entries of equal score that stood before it
RECURSIVE InsertByScore(_, _)
InsertByScore(sorted, p) ==
    IF sorted = <<>> THEN <<p>>
    ELSE IF p.score > Head(sorted).score THEN <<p>> \o sorted
    ELSE <<Head(sorted)>> \o InsertByScore(Tail(sorted), p)

\* line 113: relevant.sort(key=lambda x: x[1], reverse=True)
RECURSIVE SortByScore(_)
SortByScore(pairs) ==
    IF pairs = <<>> THEN <<>>
    ELSE InsertByScore(SortByScore(SubSeq(pairs, 1, Len(pairs) - 1)), pairs[Len(pairs)])

\* TopChunks that returns every chunk of the sorted list
TopChunks_all(pairs) == [i \in 1..Len(pairs) |-> pairs[i].chunk]

\* line 114: [chunk for chunk, score in relevant[:5]]
TopChunks(pairs) ==
    LET top == Slice(pairs, 0, 5)
    IN  [i \in 1..Len(top) |-> top[i].chunk]

\* the exception the body of _find_relevant_chunks ends with, "none" when it
\* reaches its return: get_all_chunks raises when the table is missing, and
\* None.lower() raises for a row whose docstring is NULL
FindException ==
    IF ~schema THEN "OperationalError"
    ELSE IF \E k \in 1..Len(code_chunks) : code_chunks[k].docstring = Null
         THEN "AttributeError"
         ELSE "none"

\* ExceptFind that catches the errors of the store only
ExceptFind_sqlite_only(exc) == exc = "OperationalError"

\* line 116, except Exception
ExceptFind(exc) == exc \in { "OperationalError", "AttributeError" }

\* what _find_relevant_chunks returns when nothing is raised past it
FindRelevant(q) ==
    IF FindException # "none" THEN <<>>
    ELSE TopChunks(SortByScore(RelevantPairs(GetAllChunks(code_chunks), QuestionWords(q))))

\* the rows the retriever finds in the store in this model: "add_num" in
\* src/a.py with the docstring "Add num", the class "Sub" in b.py, "add" in
\* a.py, and "num" in a.py with a NULL docstring
R_add_num ==
    CodeChunk(<<"src", "/", "a", ".py">>, "function",
              <<"a", "d", "d", "_", "n", "u", "m">>, <<"t1">>, 1, 1,
              <<"A", "d", "d", " ", "n", "u", "m">>)
R_Sub  == CodeChunk(<<"b", ".py">>, "class",    <<"S", "u", "b">>, <<"t2">>, 1, 1, <<>>)
R_add  == CodeChunk(<<"a", ".py">>, "function", <<"a", "d", "d">>, <<"t3">>, 2, 2, <<>>)
R_null == CodeChunk(<<"a", ".py">>, "function", <<"n", "u", "m">>, <<"t4">>, 3, 3, Null)

\* the tables: up to MaxRows rows in insertion order, the first any of the
\* three rows with a docstring and the later ones "Sub" or "add"; and tables
\* that end with the row whose docstring is NULL
RetrieverTables ==
    LET later == SeqsUpTo({ R_Sub, R_add }, MaxRows - 1)
        typed == { <<>> } \cup { <<c>> \o t : c \in { R_add_num, R_Sub, R_add }, t \in later }
        lists == typed \cup { Append(t, R_null) : t \in { u \in typed : Len(u) <= 1 } }
    IN  { [k \in 1..Len(t) |-> Row(k, t[k])] : t \in lists }

\* the questions: "", "to a", "ADD  add num", "add_num", "add sub src"
RetrieverQuestions ==
    { <<>>,
      <<"t", "o", " ", "a">>,
      <<"A", "D", "D", " ", " ", "a", "d", "d", " ", "n", "u", "m">>,
      <<"a", "d", "d", "_", "n", "u", "m">>,
      <<"a", "d", "d", " ", "s", "u", "b", " ", "s", "r", "c">> }

\* how the answer service of a provider can behave during one chat: whether
\* the SDK imports and the API key is set (openai, anthropic), what the GET
\* of /api/tags gives (ollama), and what the generation request gives
Service(installed, api_key, probe, generate) ==
    [installed |-> installed, api_key |-> api_key, probe |-> probe, generate |-> generate]

NoService == Service(TRUE, TRUE, "none", "none")

ChatIdle ==
    /\ conversation_history = <<>>
    /\ apc = "idle"
    /\ last_question = <<>>
    /\ relevant = <<>>
    /\ last_response = ""
    /\ calls = <<>>
    /\ service = NoService

\* _find_relevant_chunks(question), lines 83-118
FindRelevantChunks(q) ==
    /\ last_question' = q
    /\ relevant' = FindRelevant(q)
    /\ apc' = IF FindException # "none" /\ ~ExceptFind(FindException)
              THEN "find_raised" ELSE "find_done"
    /\ UNCHANGED <<ai_provider, conversation_history, last_response, calls, service>>
    /\ UNCHANGED <<store_vars, scan_vars>>

\* ------------------------------------------------------------------- chat
\* "gemini" stands for any provider name _get_ai_response does not know
Providers == { "openai", "anthropic", "ollama", "gemini" }

\* the conditions the service of a provider can be found in
ServicesOf(provider) ==
    IF provider = "ollama"
    THEN { Service(TRUE, TRUE, p, "none") : p \in { "503", "ConnectionError", "Timeout" } }
            \cup { Service(TRUE, TRUE, "200", g) :
                     g \in { "200", "200 without response", "500",
                             "ConnectionError", "Timeout", "ValueError" } }
    ELSE IF provider \in { "openai", "anthropic" }
    THEN { Service(FALSE, FALSE, "none", "none"), Service(TRUE, FALSE, "none", "none"),
           Service(TRUE, TRUE, "none", "200"), Service(TRUE, TRUE, "none", "APIError") }
    ELSE { NoService }

\* what a provider method hands back: the text, and the requests it sent
Answer(text, requests) == [text |-> text, requests |-> requests]

\* _get_openai_response
GetOpenaiResponse(sv) ==
    IF ~sv.installed
    THEN Answer("OpenAI library not installed. Run: pip install openai", <<>>)
    ELSE IF ~sv.api_key
    THEN Answer("Please set your OPENAI_API_KEY environment variable to use OpenAI.", <<>>)
    ELSE IF sv.generate = "200"
    THEN Answer("r", <<"openai.ChatCompletion.create">>)
    ELSE Answer("OpenAI API error: e", <<"openai.ChatCompletion.create">>)

\* _get_anthropic_response
GetAnthropicResponse(sv) ==
    IF ~sv.installed
    THEN Answer("Anthropic library not installed. Run: pip install anthropic", <<>>)
    ELSE IF ~sv.api_key
    THEN Answer("Please set your ANTHROPIC_API_KEY environment variable to use Anthropic.", <<>>)
    ELSE IF sv.generate = "200"
    THEN Answer("r", <<"client.messages.create">>)
    ELSE Answer("Anthropic API error: e", <<"client.messages.create">>)

\* lines 216-221: the except clauses of _get_ollama_response
OllamaExcept(exc) ==
    CASE exc = "ConnectionError" -> "Cannot connect to Ollama. Make sure it's running: ollama serve"
      [] exc = "Timeout"         -> "Ollama request timed out. The model might be loading."
      [] OTHER                   -> "Ollama error: e"

\* GetOllamaResponse that posts the generation request again after a timeout
GetOllamaResponse_retry(sv) ==
    LET tags     == <<"GET /api/tags">>
        generate == <<"GET /api/tags", "POST /api/generate">>
    IN  IF sv.probe \in { "ConnectionError", "Timeout" }
        THEN Answer(OllamaExcept(sv.probe), tags)
        ELSE IF sv.probe # "200"
        THEN Answer("Ollama is not running. Start it with: ollama serve", tags)
        ELSE IF sv.generate = "Timeout"
        THEN Answer(OllamaExcept(sv.generate), Append(generate, "POST /api/generate"))
        ELSE IF sv.generate \in { "ConnectionError", "ValueError" }
        THEN Answer(OllamaExcept(sv.generate), generate)
        ELSE IF sv.generate = "200" THEN Answer("r", generate)
        ELSE IF sv.generate = "200 without response"
        THEN Answer("No response from Ollama", generate)
        ELSE Answer("Ollama error: 500", generate)

\* _get_ollama_response: the GET of /api/tags, then the POST of /api/generate
GetOllamaResponse(sv) ==
    LET tags     == <<"GET /api/tags">>
        generate == <<"GET /api/tags", "POST /api/generate">>
    IN  IF sv.probe \in { "ConnectionError", "Timeout" }
        THEN Answer(OllamaExcept(sv.probe), tags)
        ELSE IF sv.probe # "200"
        THEN Answer("Ollama is not running. Start it with: ollama serve", tags)
        ELSE IF sv.generate \in { "ConnectionError", "Timeout", "ValueError" }
        THEN Answer(OllamaExcept(sv.generate), generate)
        ELSE IF sv.generate = "200" THEN Answer("r", generate)
        ELSE IF sv.generate = "200 without response"
        THEN Answer("No response from Ollama", generate)
        ELSE Answer("Ollama error: 500", generate)

\* _get_ai_response
GetAiResponse(provider, sv) ==
    IF provider = "openai" THEN GetOpenaiResponse(sv)
    ELSE IF provider = "anthropic" THEN GetAnthropicResponse(sv)
    ELSE IF provider = "ollama" THEN GetOllamaResponse(sv)
    ELSE Answer("Unknown AI provider: gemini", <<>>)

\* the questions put to chat: "add_num", "to a"
ChatQuestions ==
    { <<"a", "d", "d", "_", "n", "u", "m">>, <<"t", "o", " ", "a">> }

\* the tables chat finds in the store
ChatTables ==
    { [k \in 1..Len(t) |-> Row(k, t[k])] : t \in SeqsUpTo({ R_add_num, R_null }, MaxChunks) }

\* chat(question), lines 33-52.  An exception of _find_relevant_chunks is the
\* only one that can reach the except clause of line 51.
Chat(q, sv) ==
    /\ Len(conversation_history) < MaxTurns
    /\ last_question' = q
    /\ service' = sv
    /\ IF FindException # "none" /\ ~ExceptFind(FindException)
       THEN /\ apc' = "chat_done"
            /\ last_response' = "Sorry, I encountered an error: e"
            /\ calls' = <<>>
            /\ UNCHANGED <<relevant, conversation_history>>
       ELSE LET relevant_chunks == FindRelevant(q)
                answer          == GetAiResponse(ai_provider, sv)
            IN  /\ apc' = "chat_done"
                /\ relevant' = relevant_chunks
                /\ last_response' = answer.text
                /\ calls' = answer.requests
                /\ conversation_history' =
                      Append(conversation_history,
                             [question |-> q, response |-> answer.text,
                              relevant_chunks |->
                                  [i \in 1..Len(relevant_chunks) |-> relevant_chunks[i].id]])
    /\ UNCHANGED ai_provider
    /\ UNCHANGED <<store_vars, scan_vars>>

Queries ==
    { [op |-> "get_all_chunks", path |-> <<>>] }
        \cup { [op |-> "get_chunks_by_file", path |-> p] : p \in QueryPaths }

Init ==
    /\ StoreInit
    /\ fs = {}
    /\ has_end_lineno = TRUE
    /\ ScanIdle
    /\ ai_provider = "ollama"
    /\ ChatIdle

\* a process that initialises and replaces the store from one working
\* directory, and a concurrent reader
Next ==
    \/ InitDbTables
    \/ InitDbConfig(Cwd)
    \/ \E chunks \in ChunkLists : StoreNoTable(chunks)
    \/ \E chunks \in ChunkLists : StoreBegin(chunks)
    \/ StoreInsert
    \/ StoreCommit
    \/ StoreFail
    \/ StoreRollback
    \/ \E q \in Queries : ReadNoTable(q)
    \/ \E q \in Queries : ReadOpen(q)
    \/ ReadFetchAll
    \/ ReadReturn

Spec == Init /\ [][Next]_vars

\* init_db called again and again, from any working directory, on a store
\* that is being filled with chunks and chat rows
NextInitDb ==
    \/ InitDbTables
    \/ \E cwd \in Cwds : InitDbConfig(cwd)
    \/ \E chunks \in ChunkLists : StoreBegin(chunks)
    \/ StoreInsert
    \/ StoreCommit
    \/ \E q \in Questions, r \in Responses : SaveChat(q, r)

SpecInitDb == Init /\ [][NextInitDb]_vars

\* a scan of any file tree, on an interpreter with or without end_lineno
InitScan ==
    /\ StoreInit
    /\ fs \in FileTrees
    /\ has_end_lineno \in BOOLEAN
    /\ ScanIdle
    /\ ai_provider = "ollama"
    /\ ChatIdle

NextScan ==
    \/ ScanStart
    \/ \E src \in Sources : ScanFile(src)
    \/ ScanReturn

SpecScan == InitScan /\ [][NextScan]_vars

\* an AthAI object on a store some earlier run has filled, or on a data
\* directory without tables
StoreFilled(tables) ==
    /\ schema \in BOOLEAN
    /\ code_chunks \in (IF schema THEN tables ELSE { <<>> })
    /\ seq = Len(code_chunks)
    /\ stored = ChunksOf(code_chunks)
    /\ chat_history = <<>>
    /\ config = <<>>
    /\ wpc = "idle"
    /\ wchunks = <<>>
    /\ wi = 1
    /\ txn_rows = <<>>
    /\ txn_seq = 0
    /\ before = <<>>
    /\ rpc = "idle"
    /\ rquery = NoQuery
    /\ result = NoResult
    /\ ipc = "idle"
    /\ assigned = seq

InitRetrieve ==
    /\ StoreFilled(RetrieverTables)
    /\ fs = {}
    /\ has_end_lineno = TRUE
    /\ ScanIdle
    /\ ai_provider = "ollama"
    /\ ChatIdle

\* the retriever asked one question after another
NextRetrieve == \E q \in RetrieverQuestions : FindRelevantChunks(q)

SpecRetrieve == InitRetrieve /\ [][NextRetrieve]_vars

InitChat ==
    /\ StoreFilled(ChatTables)
    /\ fs = {}
    /\ has_end_lineno = TRUE
    /\ ScanIdle
    /\ ai_provider \in Providers
    /\ ChatIdle

\* a chat session: one question after another, each finding the answer
\* service in some condition
NextChat == \E q \in ChatQuestions : \E sv \in ServicesOf(ai_provider) : Chat(q, sv)

SpecChat == InitChat /\ [][NextChat]_vars

\* ------------------------------------------------------------ ath init
\* a project of two files, a.py and b.py, at the scan root
ProjectTree ==
    { [dirs |-> <<>>, name |-> <<"a", ".py">>],
      [dirs |-> <<>>, name |-> <<"b", ".py">>] }

\* def add(a, b) with the docstring "adds two numbers"
AddNodes ==
    << [kind |-> "FunctionDef", parent |-> 0,
        name |-> <<"a", "d", "d">>,
        doc  |-> <<"a", "d", "d", "s", " ", "t", "w", "o", " ",
                   "n", "u", "m", "b", "e", "r", "s">>] >>

\* class Subtractor, without a docstring
SubtractorNodes ==
    << [kind |-> "ClassDef", parent |-> 0,
        name |-> <<"S", "u", "b", "t", "r", "a", "c", "t", "o", "r">>,
        doc  |-> <<>>] >>

\* what a file of the project can hold
ProjectSources ==
    { [status |-> "ok", nodes |-> nodes, content |-> FileText(nodes, 0, TRUE)] :
          nodes \in { AddNodes, SubtractorNodes, <<>> } }
        \cup { [status |-> "syntax_error", nodes |-> <<>>, content |-> <<>>] }

\* the questions: "subtract numbers", "Subtractor", "add"
ProjectQuestions ==
    { <<"s", "u", "b", "t", "r", "a", "c", "t", " ", "n", "u", "m", "b", "e", "r", "s">>,
      <<"S", "u", "b", "t", "r", "a", "c", "t", "o", "r">>,
      <<"a", "d", "d">> }

\* cli.py init, line 49: storage.store_code_chunks(code_chunks) with the list
\* scan_project returned
StoreScanned == spc = "done" /\ StoreBegin(scan_chunks)

InitProject ==
    /\ StoreInit
    /\ fs = ProjectTree
    /\ has_end_lineno \in BOOLEAN
    /\ ScanIdle
    /\ ai_provider = "ollama"
    /\ ChatIdle

\* ath init on the project (init_db, scan_project, store_code_chunks), and
\* the retriever asked questions at any time
NextProject ==
    \/ InitDbTables
    \/ InitDbConfig(Cwd)
    \/ ScanStart
    \/ \E src \in ProjectSources : ScanFile(src)
    \/ ScanReturn
    \/ StoreScanned
    \/ StoreInsert
    \/ StoreCommit
    \/ \E q \in ProjectQuestions : FindRelevantChunks(q)

SpecProject == InitProject /\ [][NextProject]_vars

\* ================================================================== claims
\* how often x occurs in the sequence s
Count(x, s) == Cardinality({ k \in 1..Len(s) : s[k] = x })

\* s and t hold the same elements the same number of times
SameBag(s, t) ==
    /\ Len(s) = Len(t)
    /\ \A k \in 1..Len(s) : Count(s[k], s) = Count(s[k], t)

\* the reader's statement is get_all_chunks
ReadsAll == rquery.op = "get_all_chunks"

\* the step in which the reader's fetchall() returns
Fetches == rpc = "open" /\ rpc' = "done"

\* C1: a get_all_chunks whose rows are fetched while store_code_chunks is
\* running returns the complete chunk set stored before the call or the
\* complete chunk set passed to the call, never anything else.
C1_ReaderSeesOldOrNew ==
    [][ (Fetches /\ ReadsAll /\ wpc = "insert")
            => \/ SameBag(ChunksOf(result'.rows), before)
               \/ SameBag(ChunksOf(result'.rows), wchunks) ]_vars

\* a reader holds its SELECT open in the middle of a replacement of a
\* non-empty chunk set by a different non-empty one
C1_Witness ==
    /\ rpc = "open" /\ ReadsAll
    /\ wpc = "insert" /\ wi > 1 /\ wi <= Len(wchunks)
    /\ before # <<>>
    /\ ~SameBag(before, wchunks)

\* C2: once store_code_chunks has failed after its DELETE (and any number of
\* its INSERTs), the table holds exactly the chunk set stored before the call,
\* and every get_all_chunks fetched from then on returns exactly that set.
C2_FailureKeepsOldSet ==
    /\ [](wpc \in {"failed", "raised"}
             => ChunksOf(GetAllChunks(code_chunks)) = before)
    /\ [][ (Fetches /\ ReadsAll /\ wpc \in {"failed", "raised"})
              => ChunksOf(result'.rows) = before ]_vars

\* the call failed after at least one INSERT, the old set was not empty and a
\* get_all_chunks is being served
C2_Witness ==
    /\ wpc = "failed" /\ txn_rows # <<>>
    /\ before # <<>>
    /\ rpc = "open" /\ ReadsAll

\* C3: get_all_chunks holds exactly the chunks of the last store_code_chunks
\* call that committed (same number of rows, same multiset of the seven
\* columns), and the table only ever changes to the complete argument of the
\* running call.
C3_LastCallOnly ==
    /\ [](SameBag(ChunksOf(GetAllChunks(code_chunks)), stored))
    /\ [][ code_chunks' # code_chunks
              => SameBag(ChunksOf(code_chunks'), wchunks) /\ stored' = wchunks ]_vars

\* a second call has replaced the rows of an earlier one
C3_Witness ==
    /\ wpc = "idle"
    /\ stored # <<>>
    /\ seq > Len(code_chunks)
    /\ code_chunks # <<>>

\* rows is ascending by file_path and, within a file_path, by line_start
SortedByPathLine(rows) ==
    \A i, j \in 1..Len(rows) :
        i < j => \/ StrLess(rows[i].file_path, rows[j].file_path)
                 \/ /\ rows[i].file_path = rows[j].file_path
                    /\ rows[i].line_start <= rows[j].line_start

\* C4: whatever the insertion order, the sequence get_all_chunks returns is
\* sorted by file_path ascending and then by line_start ascending.
C4_ListAllSorted ==
    (rpc = "done" /\ ReadsAll /\ result.status = "ok") => SortedByPathLine(result.rows)

\* get_all_chunks returned two rows in an order other than the insertion order
C4_Witness ==
    /\ rpc = "done" /\ ReadsAll
    /\ Len(result.rows) = 2
    /\ result.rows[1].id > result.rows[2].id
    /\ result.rows[1].file_path # result.rows[2].file_path

\* C5: get_chunks_by_file(p) returns exactly the stored rows whose file_path
\* equals p, ascending by line_start: the rows of get_all_chunks with that
\* file_path, in the same order.
C5_ByFileExact ==
    [][ (Fetches /\ rquery.op = "get_chunks_by_file")
            => /\ result'.rows =
                     SelectSeq(GetAllChunks(code_chunks),
                               LAMBDA r : r.file_path = rquery.path)
               /\ \A k \in 1..Len(result'.rows) : result'.rows[k].file_path = rquery.path
               /\ \A k \in 1..Len(code_chunks) :
                     code_chunks[k].file_path = rquery.path
                        => \E m \in 1..Len(result'.rows) : result'.rows[m] = code_chunks[k]
               /\ \A i, j \in 1..Len(result'.rows) :
                     i < j => result'.rows[i].line_start <= result'.rows[j].line_start ]_vars

\* get_chunks_by_file("a.py") has run on a table that also holds a row of
\* "a.py/a.py", and returned one row
C5_Witness ==
    /\ rpc = "done" /\ rquery.op = "get_chunks_by_file" /\ rquery.path = P_a
    /\ Len(result.rows) = 1
    /\ Len(code_chunks) = 2
    /\ \E k \in 1..2 : code_chunks[k].file_path = P_apa
    /\ \E k \in 1..2 : code_chunks[k] = result.rows[1]

UnderIgnoredDir(f) == \E k \in 1..Len(f.dirs) : f.dirs[k] \in ignore_patterns

\* an eligible file: its name ends in .py and it is under no ignored directory
Eligible(f) == EndsWithPy(f.name) /\ ~UnderIgnoredDir(f)

\* the positions of scan_chunks that hold a module chunk of file f
ModuleChunksOf(f) ==
    { m \in 1..Len(scan_chunks) :
        /\ scan_chunks[m].file_path = RelativePath(f)
        /\ scan_chunks[m].chunk_type = "module" }

\* f was opened by the scan and its read or parse failed
FailedToParse(f) ==
    \E k \in 1..Len(sources) : python_files[k] = f /\ sources[k].status # "ok"

\* f was opened by the scan, read and parsed
Parsed(f) ==
    \E k \in 1..Len(sources) : python_files[k] = f /\ sources[k].status = "ok"

ExactlyOneModuleChunk(f) ==
    /\ Cardinality(ModuleChunksOf(f)) = 1
    /\ \A m \in ModuleChunksOf(f) : scan_chunks[m].line_start = 1

DeclChunksOf(k) ==
    LET path == RelativePath(python_files[k])
    IN  { m \in 1..Len(scan_chunks) :
            /\ scan_chunks[m].file_path = path
            /\ scan_chunks[m].chunk_type # "module" }

\* the chunks of visited file k made for its statement j
ChunksOfNode(k, j) ==
    { m \in DeclChunksOf(k) :
        /\ scan_chunks[m].name = <<NodeNames[j]>>
        /\ scan_chunks[m].line_start = j }

\* the chunk type a statement kind stands for
TypeOfKind(kind) == IF kind = "ClassDef" THEN "class" ELSE "function"

C9_SpanAndPath ==
    [][ fi' = fi + 1 =>
          \A m \in (Len(scan_chunks) + 1)..Len(scan_chunks') :
              /\ 1 <= scan_chunks'[m].line_start
              /\ scan_chunks'[m].line_start <= scan_chunks'[m].line_end
              /\ scan_chunks'[m].file_path = JoinPath(python_files[fi].dirs, python_files[fi].name) ]_vars

\* a file in a sub-directory gave a function chunk whose end line comes from
\* the 10-line fallback
C9_Witness ==
    /\ ~has_end_lineno
    /\ \E m \in 1..Len(scan_chunks) :
          /\ scan_chunks[m].chunk_type = "function"
          /\ scan_chunks[m].line_end = scan_chunks[m].line_start + 9
          /\ scan_chunks[m].file_path = <<"my", ".git", "/", "a", ".py">>

\* no chunk of the output carries the path of f
Absent(f) ==
    \A m \in 1..Len(scan_chunks) : scan_chunks[m].file_path # RelativePath(f)

\* C10: when the scan has returned, a .py file has no chunk in the output
\* exactly when a directory on its path is named as an ignore-set entry or
\* the file failed to be read or parsed; a directory whose name merely
\* contains an entry does not exclude its files.
C10_IgnoredExactly ==
    spc = "done" =>
        \A f \in fs : EndsWithPy(f.name) =>
            (Absent(f) <=> (UnderIgnoredDir(f) \/ FailedToParse(f)))

\* the scan has returned the chunks of my.git/a.py and none for .git/src/a.py
C10_Witness ==
    /\ spc = "done"
    /\ fs = { [dirs |-> <<D_mygit>>, name |-> N_a_py],
              [dirs |-> <<D_git, D_src>>, name |-> N_a_py] }
    /\ ~Absent([dirs |-> <<D_mygit>>, name |-> N_a_py])
    /\ Absent([dirs |-> <<D_git, D_src>>, name |-> N_a_py])

\* C11: whichever eligible files are malformed or unreadable, and wherever the
\* walk meets them, scan_project does not raise, its loop has taken one turn
\* for each file it has passed and none beyond the last, and when it has
\* returned every file was visited and the output holds all the chunks of
\* every file that was read and parsed (its module chunk and a chunk for each
\* of its def and class statements), those visited before a failing file and
\* those visited after.
C11_ScanSurvivesFailures ==
    /\ spc # "raised"
    /\ spc \in { "scan", "done" } =>
          /\ Len(sources) = fi - 1
          /\ fi <= Len(python_files) + 1
    /\ spc = "done" =>
          /\ Len(sources) = Len(python_files)
          /\ \A k \in 1..Len(sources) :
                sources[k].status = "ok" =>
                    /\ \E m \in 1..Len(scan_chunks) :
                          /\ scan_chunks[m].chunk_type = "module"
                          /\ scan_chunks[m].file_path = RelativePath(python_files[k])
                    /\ \A j \in 1..Len(sources[k].nodes) :
                          sources[k].nodes[j].kind \in { "FunctionDef", "ClassDef" } =>
                              \E m \in 1..Len(scan_chunks) :
                                  /\ scan_chunks[m].chunk_type # "module"
                                  /\ scan_chunks[m].file_path = RelativePath(python_files[k])
                                  /\ scan_chunks[m].name = sources[k].nodes[j].name
                                  /\ scan_chunks[m].line_start = j

\* the scan has returned after an unreadable file followed by a file that was
\* parsed, and the output holds the chunks of the second
C11_Witness ==
    /\ spc = "done"
    /\ Len(sources) = 2
    /\ sources[1].status = "unreadable"
    /\ sources[2].status = "ok"
    /\ Len(sources[2].nodes) = 2
    /\ Len(scan_chunks) >= 2

\* the visited files that were skipped because their read or parse failed
SkippedFiles == { k \in 1..Len(sources) : sources[k].status # "ok" }

\* the visited files that were read and parsed, in walk order
KeptFiles == SelectSeq([k \in 1..Len(sources) |-> k], LAMBDA k : sources[k].status = "ok")

\* C12 as stated: the value scan_project returns tells a scan that skipped
\* files from one that skipped none, so a scan that skipped some file does
\* not return what the scan of the same tree without the skipped files, which
\* skips nothing, returns.
C12_Original ==
    (spc = "done" /\ SkippedFiles # {}) =>
        scan_chunks # ScanProject([i \in 1..Len(KeptFiles) |-> python_files[KeptFiles[i]]],
                                  [i \in 1..Len(KeptFiles) |-> sources[KeptFiles[i]]])

\* the number of lines of a text: one for every newline, and one more for a
\* last line that no newline ends
LineCount(content) ==
    Cardinality({ i \in 1..Len(content) : content[i] = "\n" })
        + (IF content # <<>> /\ content[Len(content)] # "\n" THEN 1 ELSE 0)

\* C20 as stated: the module chunk of every scanned file has the file name
\* without its extension as name, the first 500 characters of the text (all
\* of it when it is shorter) as content, and the line range 1..L, L the number
\* of lines of the file, with or without a trailing newline.
C20_Original ==
    \A k \in 1..Len(sources) :
        sources[k].status = "ok" =>
            \E m \in 1..Len(scan_chunks) :
                LET c    == scan_chunks[m]
                    text == sources[k].content
                    name == python_files[k].name
                IN  /\ c.chunk_type = "module"
                    /\ c.file_path = RelativePath(python_files[k])
                    /\ c.name \o <<".py">> = name
                    /\ Len(c.content) = (IF Len(text) < 500 THEN Len(text) ELSE 500)
                    /\ IsPrefix(c.content, text)
                    /\ c.line_start = 1
                    /\ c.line_end = LineCount(text)

\* ------------------------------------------------------- retrieval claims
\* the store can be read and every row has a string as docstring
Readable == schema /\ \A k \in 1..Len(code_chunks) : code_chunks[k].docstring # Null

\* the score of a row for the question of the last call
ScoreOf(r) == Score(QuestionWords(last_question), r)

\* the rows with a positive score for the question of the last call
Positive == { k \in 1..Len(code_chunks) : ScoreOf(code_chunks[k]) > 0 }

\* the place of the row with this id in the list get_all_chunks returns
StorePos(id) ==
    LET all == GetAllChunks(code_chunks)
    IN  CHOOSE k \in 1..Len(all) : all[k].id = id

\* the row with this id was returned by the last call
Returned(id) == \E i \in 1..Len(relevant) : relevant[i].id = id

\* C13: on a readable store, _find_relevant_chunks returns at most 5 rows,
\* each a row of the store with a positive score, none twice; when fewer than
\* 5 rows have a positive score it returns all of them, and 5 otherwise.
C13_AtMostFivePositive ==
    (apc = "find_done" /\ Readable) =>
        /\ Len(relevant) <= 5
        /\ \A i \in 1..Len(relevant) :
              /\ \E k \in 1..Len(code_chunks) : code_chunks[k] = relevant[i]
              /\ ScoreOf(relevant[i]) > 0
        /\ \A i, j \in 1..Len(relevant) : i # j => relevant[i].id # relevant[j].id
        /\ Cardinality(Positive) < 5 => \A k \in Positive : Returned(code_chunks[k].id)
        /\ Cardinality(Positive) >= 5 => Len(relevant) = 5

\* six rows of the store have a positive score and five were returned
C13_Witness ==
    /\ apc = "find_done" /\ Readable
    /\ Cardinality(Positive) = 6
    /\ Len(relevant) = 5

\* C14: the rows returned are in descending order of score, rows of equal
\* score in the order of get_all_chunks; no row left out has a higher score
\* than a returned one, a row left out whose score equals a returned one's
\* comes later in that order, and the result is a function of the store and
\* the question.
C14_RankedStable ==
    (apc = "find_done" /\ Readable) =>
        /\ \A i, j \in 1..Len(relevant) :
              i < j => \/ ScoreOf(relevant[i]) > ScoreOf(relevant[j])
                       \/ /\ ScoreOf(relevant[i]) = ScoreOf(relevant[j])
                          /\ StorePos(relevant[i].id) < StorePos(relevant[j].id)
        /\ \A k \in 1..Len(code_chunks) :
              ~Returned(code_chunks[k].id) =>
                  \A i \in 1..Len(relevant) :
                      \/ ScoreOf(code_chunks[k]) < ScoreOf(relevant[i])
                      \/ /\ ScoreOf(code_chunks[k]) = ScoreOf(relevant[i])
                         /\ StorePos(code_chunks[k].id) > StorePos(relevant[i].id)
        /\ relevant = FindRelevant(last_question)

\* five rows were returned, the first with a higher score than the rest, two
\* of equal score against their insertion order, and a row of that score was
\* left out
C14_Witness ==
    /\ apc = "find_done" /\ Readable
    /\ Len(relevant) = 5
    /\ ScoreOf(relevant[1]) > ScoreOf(relevant[2])
    /\ ScoreOf(relevant[4]) = ScoreOf(relevant[5])
    /\ relevant[4].id > relevant[5].id
    /\ \E k \in 1..Len(code_chunks) :
          ~Returned(code_chunks[k].id) /\ ScoreOf(code_chunks[k]) = ScoreOf(relevant[5])

\* the tokens of s: the maximal non-empty runs of characters outside delims
Tokens(s, delims) ==
    { SubSeq(s, p[1], p[2]) :
        p \in { q \in (1..Len(s)) \X (1..Len(s)) :
                  /\ q[1] <= q[2]
                  /\ \A k \in q[1]..q[2] : s[k] \notin delims
                  /\ q[1] = 1 \/ s[q[1] - 1] \in delims
                  /\ q[2] = Len(s) \/ s[q[2] + 1] \in delims } }

Whitespace == { " ", "\t", "\n" }

\* Q: the distinct lower-cased whitespace-separated tokens of the question
\* that are longer than 2 characters
ClaimQ == { Lower(w) : w \in { t \in Tokens(last_question, Whitespace) : Len(t) > 2 } }

\* D and P of a row: the whitespace-separated tokens of the lower-cased
\* docstring, and the tokens of the lower-cased path with '/' and '.' turned
\* into spaces
ClaimD(r) == Tokens(Lower(r.docstring), Whitespace)
ClaimP(r) == Tokens(Lower(Chars(r.file_path)), Whitespace \cup { "/", "." })

\* C15 as stated: the score of every row is 5*|Q n N| + 3*|Q n D| + 2*|Q n P|
\* with N the tokens of the lower-cased name split on underscore and on
\* whitespace.
C15_Original ==
    (apc = "find_done" /\ Readable) =>
        \A k \in 1..Len(code_chunks) :
            LET r == code_chunks[k]
                N == Tokens(Lower(r.name), Whitespace \cup { "_" })
            IN  ScoreOf(r) = 5 * Cardinality(ClaimQ \cap N)
                               + 3 * Cardinality(ClaimQ \cap ClaimD(r))
                               + 2 * Cardinality(ClaimQ \cap ClaimP(r))

\* C15 as amended: the score of every row is 5*|Q n N| + 3*|Q n D| + 2*|Q n P|
\* with N the tokens of the lower-cased name split on underscore together
\* with its tokens split on whitespace, so that a name with an underscore is
\* a token itself next to its parts; a row is returned only with a positive
\* value of this sum.
C15_ScoreFormula ==
    (apc = "find_done" /\ Readable) =>
        /\ \A k \in 1..Len(code_chunks) :
              LET r == code_chunks[k]
                  N == Tokens(Lower(r.name), { "_" }) \cup Tokens(Lower(r.name), Whitespace)
              IN  ScoreOf(r) = 5 * Cardinality(ClaimQ \cap N)
                                 + 3 * Cardinality(ClaimQ \cap ClaimD(r))
                                 + 2 * Cardinality(ClaimQ \cap ClaimP(r))
        /\ \A i \in 1..Len(relevant) :
              LET r == relevant[i]
                  N == Tokens(Lower(r.name), { "_" }) \cup Tokens(Lower(r.name), Whitespace)
              IN  5 * Cardinality(ClaimQ \cap N) + 3 * Cardinality(ClaimQ \cap ClaimD(r))
                      + 2 * Cardinality(ClaimQ \cap ClaimP(r)) > 0

\* the question "add_num" was asked of a store that holds the function
\* add_num, which was returned
C15_Witness ==
    /\ apc = "find_done" /\ Readable
    /\ last_question = <<"a", "d", "d", "_", "n", "u", "m">>
    /\ \E i \in 1..Len(relevant) : relevant[i].name = <<"a", "d", "d", "_", "n", "u", "m">>

\* C16: _find_relevant_chunks returns the empty sequence, and raises nothing,
\* whenever the question is empty or has only tokens of at most 2 characters,
\* whatever the store holds, and whenever the store holds no chunk, whatever
\* the question.
C16_EmptyResult ==
    /\ apc # "find_raised"
    /\ apc = "find_done" =>
          /\ (\A t \in Tokens(last_question, Whitespace) : Len(t) <= 2) => relevant = <<>>
          /\ code_chunks = <<>> => relevant = <<>>

\* the question "to a" was asked of a store that holds a row of a.py
C16_Witness ==
    /\ apc = "find_done" /\ Readable
    /\ last_question = <<"t", "o", " ", "a">>
    /\ \E k \in 1..Len(code_chunks) : code_chunks[k].file_path = <<"a", ".py">>
    /\ relevant = <<>>

\* C18: _find_relevant_chunks raises nothing: for every question and every
\* store, one that cannot be read and one with a NULL docstring included, it
\* returns a sequence of rows of the store, the empty one when no row has a
\* positive score.
C18_FindNeverFails ==
    /\ apc # "find_raised"
    /\ apc = "find_done" =>
          /\ \A i \in 1..Len(relevant) :
                \E k \in 1..Len(code_chunks) : code_chunks[k] = relevant[i]
          /\ ~Readable => relevant = <<>>
          /\ Positive = {} => relevant = <<>>

\* a question that matches a row was asked of a store with a NULL docstring
C18_Witness ==
    /\ apc = "find_done"
    /\ schema /\ ~Readable
    /\ Positive # {}
    /\ relevant = <<>>

\* ------------------------------------------------------------- chat claim
\* the answer service was unavailable or failed during the last chat, or the
\* provider is unknown
ServiceFailed ==
    \/ ai_provider \notin { "openai", "anthropic", "ollama" }
    \/ ~service.installed
    \/ ~service.api_key
    \/ ai_provider = "ollama" /\ service.probe # "200"
    \/ service.generate \notin { "200", "none" }

\* the requests of the last chat that ask the service for an answer
GenerationRequests == { i \in 1..Len(calls) : calls[i] # "GET /api/tags" }

\* the texts chat returns for a failure
FailureTexts ==
    { "Unknown AI provider: gemini",
      "OpenAI library not installed. Run: pip install openai",
      "Please set your OPENAI_API_KEY environment variable to use OpenAI.",
      "OpenAI API error: e",
      "Anthropic library not installed. Run: pip install anthropic",
      "Please set your ANTHROPIC_API_KEY environment variable to use Anthropic.",
      "Anthropic API error: e",
      "Ollama is not running. Start it with: ollama serve",
      "Cannot connect to Ollama. Make sure it's running: ollama serve",
      "Ollama request timed out. The model might be loading.",
      "Ollama error: 500",
      "Ollama error: e",
      "No response from Ollama" }

W_add        == <<"a", "d", "d">>
W_Subtractor == <<"S", "u", "b", "t", "r", "a", "c", "t", "o", "r">>

W_subtract_numbers ==
    <<"s", "u", "b", "t", "r", "a", "c", "t", " ", "n", "u", "m", "b", "e", "r", "s">>

\* the scan found add in a.py and Subtractor in b.py, and its chunks were
\* stored and are the content of the store
ScenarioStored ==
    /\ spc = "done"
    /\ Len(sources) = 2
    /\ \A k \in 1..2 :
          /\ sources[k].status = "ok"
          /\ sources[k].nodes =
                (IF python_files[k].name = <<"a", ".py">> THEN AddNodes ELSE SubtractorNodes)
    /\ wpc = "idle"
    /\ stored = scan_chunks
    /\ ChunksOf(code_chunks) = scan_chunks

\* the step in which _find_relevant_chunks("subtract numbers") returns
AsksSubtractNumbers ==
    /\ apc' = "find_done"
    /\ last_question' = W_subtract_numbers
    /\ UNCHANGED <<store_vars, scan_vars>>

\* C17 as stated: after scan and store of the two-file project, retrieving
\* "subtract numbers" returns a sequence that contains the Subtractor chunk,
\* before the add chunk.
C17_Original ==
    [][ (ScenarioStored /\ AsksSubtractNumbers) =>
            \E i, j \in 1..Len(relevant') :
                /\ relevant'[i].name = W_Subtractor /\ relevant'[i].chunk_type = "class"
                /\ relevant'[j].name = W_add /\ relevant'[j].chunk_type = "function"
                /\ i < j ]_vars

\* C17 as amended: after scan and store of the two-file project, retrieving
\* "subtract numbers" returns exactly the add chunk (the token "numbers" is in
\* its docstring); the Subtractor chunk, which is in the store, is not
\* returned, because no token of the question equals a token of its name
\* ("subtractor"), docstring or path.
C17_ScenarioReturnsAdd ==
    [][ (ScenarioStored /\ AsksSubtractNumbers) =>
            /\ Len(relevant') = 1
            /\ relevant'[1].name = W_add
            /\ relevant'[1].chunk_type = "function"
            /\ relevant'[1].file_path = <<"a", ".py">>
            /\ relevant'[1].docstring
                  = <<"a", "d", "d", "s", " ", "t", "w", "o", " ",
                      "n", "u", "m", "b", "e", "r", "s">>
            /\ \E k \in 1..Len(code_chunks) :
                  code_chunks[k].name = W_Subtractor /\ code_chunks[k].chunk_type = "class" ]_vars

\* the scenario has run to the answer of the retriever: the store holds the
\* four chunks of the project and the question found a chunk in it
C17_Witness ==
    /\ ScenarioStored
    /\ Len(code_chunks) = 4
    /\ apc = "find_done"
    /\ last_question = W_subtract_numbers
    /\ relevant # <<>>

\* ---------------------------------------------------------------------- C21
Ids(rows) == { rows[k].id : k \in 1..Len(rows) }

\* no two rows of a table carry the same id
UniqueIds(rows) == \A j, k \in 1..Len(rows) : j # k => rows[j].id # rows[k].id

\* a step in which an INSERT of store_code_chunks hands out an id, txn_seq'
Inserts == wpc = "insert" /\ wi' = wi + 1

\* C21, as stated: ids are unique among the rows present at any time (in the
\* committed table and in the table as the running call sees it), and every
\* id an INSERT hands out is greater than every id handed out before, by this
\* call or by any earlier call, whether that call committed or raised.
C21_Original ==
    /\ [](UniqueIds(code_chunks) /\ UniqueIds(txn_rows))
    /\ [][Inserts => txn_seq' > assigned]_vars

\* C21, amended: ids are unique among the rows present at any time, and every
\* id an INSERT hands out is greater than every id of a row that was ever
\* committed: greater than the committed sqlite_sequence entry, which never
\* decreases and bounds the id of every committed row, although each call
\* deletes all rows first.  (The ids of a call that raised are rolled back
\* together with the sqlite_sequence entry and are handed out again.)
C21_IdsAboveEveryCommittedId ==
    /\ [](/\ UniqueIds(code_chunks)
          /\ UniqueIds(txn_rows)
          /\ \A id \in Ids(code_chunks) : 1 <= id /\ id <= seq
          /\ wpc \in {"insert", "failed"} =>
                \A id \in Ids(txn_rows) : seq < id /\ id <= txn_seq)
    /\ [][seq' >= seq]_vars
    /\ [][Inserts => /\ txn_seq' > seq
                     /\ \A id \in Ids(code_chunks) \cup Ids(txn_rows) : txn_seq' > id
                     /\ txn_rows'[Len(txn_rows')].id = txn_seq']_vars

\* a call that follows a committed call with rows, which itself followed a
\* call with rows, has inserted a row: the old rows are deleted in its
\* transaction and its row has a greater id than any of them
C21_Witness ==
    /\ wpc = "insert"
    /\ txn_rows # <<>>
    /\ code_chunks # <<>>
    /\ code_chunks[1].id > 1
    /\ txn_rows[1].id > code_chunks[Len(code_chunks)].id
\* ---------------------------------------------------------------------- C22
\* the positions of the output that hold a chunk of visited file k
PositionsOf(k) ==
    LET path == RelativePath(python_files[k])
    IN  { m \in 1..Len(scan_chunks) : scan_chunks[m].file_path = path }

\* the def and class statements of visited file k, at any depth
Declarations(k) ==
    { j \in 1..Len(sources[k].nodes) :
        sources[k].nodes[j].kind \in { "FunctionDef", "ClassDef" } }

\* C22: at every point of the scan, a visited file whose read or parse failed
\* has no chunk in the output, not even a module chunk, and a visited file
\* that was read and parsed has its full chunk set there: one run of
\* consecutive positions that begins with its only module chunk and holds
\* besides it exactly one chunk for each of its def and class statements;
\* the runs of the files follow one another in the order of the walk.
C22_AllOrNothing ==
    LET positions == [k \in 1..Len(sources) |-> PositionsOf(k)]
    IN  \A k \in 1..Len(sources) :
            LET pos  == positions[k]
                decl == Declarations(k)
                size == Cardinality(pos)
            IN  /\ sources[k].status # "ok" => pos = {}
                /\ sources[k].status = "ok" =>
                      /\ size = 1 + Cardinality(decl)
                      /\ \E lo \in pos :
                            /\ pos = lo..(lo + size - 1)
                            /\ scan_chunks[lo].chunk_type = "module"
                            /\ \A m \in pos \ { lo } : scan_chunks[m].chunk_type # "module"
                      /\ \A j \in decl :
                            \E m \in pos :
                                /\ scan_chunks[m].chunk_type # "module"
                                /\ scan_chunks[m].name = sources[k].nodes[j].name
                                /\ scan_chunks[m].line_start = j
                /\ \A l \in (k + 1)..Len(sources) :
                      \A m \in pos, n \in positions[l] : m < n

\* the scan has returned after a file with two def or class statements and a
\* file that does not parse: the output is the three chunks of the first
C22_Witness ==
    /\ spc = "done"
    /\ Len(sources) = 2
    /\ sources[1].status = "ok"
    /\ Cardinality(Declarations(1)) = 2
    /\ sources[2].status = "syntax_error"
    /\ Len(scan_chunks) = 3
    /\ scan_chunks[1].chunk_type = "module"
====
